---- MODULE Spec2Model ----
(***************************************************************************)
(* A model of src/main.py: the pipeline that fetches a clinical policy     *)
(* page, extracts the ordered list after the Policy heading, asks a        *)
(* language model for a rule tree and validates the answer.                *)
(*                                                                         *)
(* Texts are sequences of lexemes (a fence marker, a word, a string        *)
(* literal, a number, a punctuation mark, a blank or a newline), so that   *)
(* strip / startswith / endswith / split / join and json.loads work on     *)
(* them the way the Python code works on characters.                       *)
(***************************************************************************)
EXTENDS Integers, Sequences, FiniteSets, TLC

\* ------------------------------------------------------------- bounds
MaxDoc == 3       \* most elements of a fetched page
MaxDepth == 1     \* deepest nesting of the rule trees the model answers with
MaxPad == 1       \* most blank lines around the model's answer

\* --------------------------------------------------- Python values
\* Every value carries its type: None, str, int, list, dict, and the two
\* pydantic models.  A str holds a text where the model reads it as one
\* (the model's answer) and a plain string elsewhere.
JNull == [null |-> "null"]
JStr(s) == [str |-> s]
JNum(n) == [num |-> n]
JArr(seq) == [arr |-> seq]
JObj(f) == [obj |-> f]

\* type(x): the one field a value has names its type
TypeOf(x) == CHOOSE k \in DOMAIN x : TRUE

\* dict[key] = value
SetItem(d, key, val) == JObj((key :> val) @@ d.obj)

\* key in dict
HasKey(d, key) == key \in DOMAIN d.obj

\* --------------------------------------------------------------- text
\* the three-backtick markdown fence marker
Fence == [k |-> "fence", v |-> "fence"]
NL == [k |-> "ws", v |-> "\n"]
SP == [k |-> "ws", v |-> " "]
Word(w) == [k |-> "word", v |-> w]
StrLit(s) == [k |-> "string", v |-> s]
NumLit(n) == [k |-> "number", v |-> n]
Punct(c) == [k |-> "punct", v |-> c]

IsWs(x) == x.k = "ws"

RECURSIVE LStrip(_)
LStrip(s) == IF s # <<>> /\ IsWs(Head(s)) THEN LStrip(Tail(s)) ELSE s

RECURSIVE RStrip(_)
RStrip(s) ==
  IF s # <<>> /\ IsWs(s[Len(s)]) THEN RStrip(SubSeq(s, 1, Len(s) - 1)) ELSE s

\* str.strip()
Strip(s) == RStrip(LStrip(s))

\* str.startswith(fence) / str.endswith(fence)
StartsWithFence(s) == s # <<>> /\ Head(s) = Fence
EndsWithFence(s) == s # <<>> /\ s[Len(s)] = Fence

\* str.split("\n"): the lines of s, at least one; line k lies between the
\* (k-1)th and the kth newline
Split(s) ==
  LET cuts == { i \in 1..Len(s) : s[i] = NL } \cup {0, Len(s) + 1}
      Cut(k) == CHOOSE p \in cuts : Cardinality({ q \in cuts : q < p }) = k
  IN [k \in 1..(Cardinality(cuts) - 1) |-> SubSeq(s, Cut(k - 1) + 1, Cut(k) - 1)]

\* "\n".join(lines)
RECURSIVE Join(_)
Join(lines) ==
  IF lines = <<>> THEN <<>>
  ELSE IF Len(lines) = 1 THEN lines[1]
  ELSE lines[1] \o <<NL>> \o Join(Tail(lines))

\* lines[1:-1]
Inner(lines) == IF Len(lines) <= 2 THEN <<>> ELSE SubSeq(lines, 2, Len(lines) - 1)

\* a fence that loses its opening line only
StripFencesOpeningOnly(result) ==
  IF StartsWithFence(result) /\ EndsWithFence(result)
  THEN Strip(Join(Tail(Split(result))))
  ELSE result

\* the markdown wrapper, when the answer begins and ends with a fence
StripFences(result) ==
  IF StartsWithFence(result) /\ EndsWithFence(result)
  THEN Strip(Join(Inner(Split(result))))
  ELSE result

\* ---------------------------------------------------------- json.loads
ParseFail == [ok |-> FALSE, v |-> JNull, i |-> 0]
ParseOk(val, next) == [ok |-> TRUE, v |-> val, i |-> next]

RECURSIVE SkipWs(_, _)
SkipWs(s, i) == IF i <= Len(s) /\ IsWs(s[i]) THEN SkipWs(s, i + 1) ELSE i

Is(s, i, lex) == i <= Len(s) /\ s[i] = lex

IsKind(s, i, kind) == i <= Len(s) /\ s[i].k = kind

RECURSIVE ParseValue(_, _), ParseElements(_, _, _), ParseMembers(_, _, _)

ParseValue(s, i0) ==
  LET i == SkipWs(s, i0)
      j == SkipWs(s, i + 1)
  IN CASE IsKind(s, i, "string") -> ParseOk(JStr(s[i].v), i + 1)
       [] IsKind(s, i, "number") -> ParseOk(JNum(s[i].v), i + 1)
       [] Is(s, i, Word("null")) -> ParseOk(JNull, i + 1)
       [] Is(s, i, Punct("[")) /\ Is(s, j, Punct("]")) -> ParseOk(JArr(<<>>), j + 1)
       [] Is(s, i, Punct("[")) /\ ~Is(s, j, Punct("]")) -> ParseElements(s, j, <<>>)
       [] Is(s, i, Punct("{")) /\ Is(s, j, Punct("}")) -> ParseOk(JObj(<<>>), j + 1)
       [] Is(s, i, Punct("{")) /\ ~Is(s, j, Punct("}")) -> ParseMembers(s, j, JObj(<<>>))
       [] OTHER -> ParseFail

ParseElements(s, i, acc) ==
  LET r == ParseValue(s, i)
      j == SkipWs(s, r.i)
  IN CASE r.ok /\ Is(s, j, Punct(",")) -> ParseElements(s, j + 1, Append(acc, r.v))
       [] r.ok /\ Is(s, j, Punct("]")) -> ParseOk(JArr(Append(acc, r.v)), j + 1)
       [] OTHER -> ParseFail

ParseMembers(s, i0, acc) ==
  LET i == SkipWs(s, i0)
      c == SkipWs(s, i + 1)
      r == ParseValue(s, c + 1)
      j == SkipWs(s, r.i)
      member == IsKind(s, i, "string") /\ Is(s, c, Punct(":")) /\ r.ok
  IN CASE member /\ Is(s, j, Punct(",")) -> ParseMembers(s, j + 1, SetItem(acc, s[i].v, r.v))
       [] member /\ Is(s, j, Punct("}")) -> ParseOk(SetItem(acc, s[i].v, r.v), j + 1)
       [] OTHER -> ParseFail

\* json.loads(text): the value, or JSONDecodeError (ok = FALSE)
JsonLoads(s) ==
  LET r == ParseValue(s, 1) IN
  IF r.ok /\ SkipWs(s, r.i) > Len(s) THEN [ok |-> TRUE, v |-> r.v]
  ELSE [ok |-> FALSE, v |-> JNull]

\* ------------------------------------------------- Rule and Guideline
RuleModel(id, text, op, kids) ==
  [Rule |-> [rule_id |-> id, rule_text |-> text, operator |-> op, rules |-> kids]]

GuidelineModel(title, payer, root) ==
  [Guideline |-> [title |-> title, insurance_name |-> payer, rules |-> root]]

Invalid == [ok |-> FALSE, v |-> JNull]
Valid(x) == [ok |-> TRUE, v |-> x]

\* a str field that also takes a number (the coercing pydantic v1 rule)
IsStrLax(x) == TypeOf(x) \in {"str", "num"}

\* a str field: pydantic 2 takes a str and nothing else
IsStr(x) == TypeOf(x) = "str"

\* a required str field of dict d
RequiredStr(d, key) == HasKey(d, key) /\ IsStr(d.obj[key])

\* an Optional[str] field of dict d: absent, null or a str
OptionalStr(d, key) == ~HasKey(d, key) \/ TypeOf(d.obj[key]) = "null" \/ IsStr(d.obj[key])

Field(d, key) == IF HasKey(d, key) THEN d.obj[key] ELSE JNull

RECURSIVE ValidateRule(_), ValidateRuleList(_, _)

\* Rule.model_validate of one candidate
ValidateRule(j) ==
  IF TypeOf(j) # "obj" THEN Invalid
  ELSE IF ~RequiredStr(j, "rule_id") \/ ~RequiredStr(j, "rule_text") THEN Invalid
  ELSE IF ~OptionalStr(j, "operator") THEN Invalid
  ELSE LET kids == Field(j, "rules") IN
       IF TypeOf(kids) = "null"
       THEN Valid(RuleModel(j.obj["rule_id"], j.obj["rule_text"], Field(j, "operator"), JNull))
       ELSE IF TypeOf(kids) # "arr" THEN Invalid
       ELSE LET ks == ValidateRuleList(kids.arr, <<>>) IN
            IF ~ks.ok THEN Invalid
            ELSE Valid(RuleModel(j.obj["rule_id"], j.obj["rule_text"],
                                 Field(j, "operator"), JArr(ks.v)))

\* List["Rule"]: every entry is validated as a Rule
ValidateRuleList(items, acc) ==
  IF items = <<>> THEN Valid(acc)
  ELSE LET r == ValidateRule(Head(items)) IN
       IF ~r.ok THEN Invalid ELSE ValidateRuleList(Tail(items), Append(acc, r.v))

\* Guideline.model_validate(data), data a dict
ValidateGuideline(data) ==
  IF ~RequiredStr(data, "title") \/ ~RequiredStr(data, "insurance_name") THEN Invalid
  ELSE IF ~HasKey(data, "rules") THEN Invalid
  ELSE LET r == ValidateRule(data.obj["rules"]) IN
       IF ~r.ok THEN Invalid
       ELSE Valid(GuidelineModel(data.obj["title"], data.obj["insurance_name"], r.v))

\* ----------------------------------------------------------- exceptions
Exc(type, msg, cause) == [type |-> type, msg |-> msg, cause |-> cause]
NoExc == Exc("", "", "")

Returned(x) == [ret |-> x, exc |-> NoExc]
Raised(e) == [ret |-> JNull, exc |-> e]

\* an except clause that lets the cause through as it is
Unwrapped(cause) == Raised(Exc(cause, "", ""))

\* except (json.JSONDecodeError, ValidationError) as e: raise ValueError(...)
Wrapped(cause) ==
  Raised(Exc("ValueError", "Error processing output from OpenAI", cause))

MedicalNecessity == "Medical Necessity"

\* data.setdefault(...): the model's own title and payer survive
OverrideIfMissing(data, title, payer) ==
  LET a == IF HasKey(data, "title") THEN data ELSE SetItem(data, "title", JStr(title))
  IN IF HasKey(a, "insurance_name") THEN a ELSE SetItem(a, "insurance_name", JStr(payer))

\* data["title"] = guideline_title; data["insurance_name"] = insurance_name
Override(data, title, payer) ==
  SetItem(SetItem(data, "title", JStr(title)), "insurance_name", JStr(payer))

\* data["rules"]["rule_text"] = "Medical Necessity", data["rules"] a dict
OverrideRoot(data) ==
  SetItem(data, "rules", SetItem(data.obj["rules"], "rule_text", JStr(MedicalNecessity)))

ItemAssignment == Exc("TypeError", "object does not support item assignment", "")

\* the try block of extract_rules_with_openai on the stripped answer
ProcessOutput(result, title, payer) ==
  LET parsed == JsonLoads(result) IN
  IF ~parsed.ok THEN Wrapped("JSONDecodeError")
  ELSE IF TypeOf(parsed.v) # "obj" THEN Raised(ItemAssignment)
  ELSE LET data == Override(parsed.v, title, payer) IN
       IF HasKey(data, "rules") /\ TypeOf(data.obj["rules"]) # "obj" THEN Raised(ItemAssignment)
       ELSE LET g == ValidateGuideline(IF HasKey(data, "rules")
                                       THEN OverrideRoot(data) ELSE data)
            IN IF g.ok THEN Returned(g.v) ELSE Wrapped("ValidationError")

\* extract_rules_with_openai from the model's message content on
ExtractRules(content, title, payer) ==
  IF TypeOf(content) = "null"
  THEN Raised(Exc("AttributeError", "'NoneType' object has no attribute 'strip'", ""))
  ELSE ProcessOutput(StripFences(Strip(content.str)), title, payer)

\* ------------------------------------------------ the model's answers
\* json.dumps-like text of a JSON value: one member per line in an object
KeyOrder == <<"title", "insurance_name", "rule_id", "rule_text", "operator", "rules">>

RECURSIVE Serialize(_)

\* the texts in parts with sep between each two of them
Interleave(parts, sep) ==
  LET Piece(i) == IF i = 1 THEN parts[i] ELSE sep \o parts[i]
      RECURSIVE Upto(_)
      Upto(i) == IF i = 0 THEN <<>> ELSE Upto(i - 1) \o Piece(i)
  IN Upto(Len(parts))

Serialize(j) ==
  IF TypeOf(j) = "null" THEN <<Word("null")>>
  ELSE IF TypeOf(j) = "str" THEN <<StrLit(j.str)>>
  ELSE IF TypeOf(j) = "num" THEN <<NumLit(j.num)>>
  ELSE IF TypeOf(j) = "arr"
  THEN LET items == [i \in 1..Len(j.arr) |-> Serialize(j.arr[i])]
       IN <<Punct("[")>> \o Interleave(items, <<Punct(","), SP>>) \o <<Punct("]")>>
  ELSE LET keys == SelectSeq(KeyOrder, LAMBDA k : HasKey(j, k))
           members == [i \in 1..Len(keys) |->
                         <<StrLit(keys[i]), Punct(":"), SP>> \o Serialize(j.obj[keys[i]])]
       IN <<Punct("{")>> \o Interleave(members, <<Punct(","), NL>>) \o <<Punct("}")>>

Absent == [absent |-> "absent"]

\* a dict of the fields that are present
Dict(all) == JObj([k \in {x \in DOMAIN all : TypeOf(all[x]) # "absent"} |-> all[k]])

RuleObj(id, text, op, kids) ==
  Dict([rule_id |-> id, rule_text |-> text, operator |-> op, rules |-> kids])

GoodLeaf == RuleObj(JStr("1"), JStr("Criterion"), Absent, Absent)
NoIdLeaf == RuleObj(Absent, JStr("Criterion"), Absent, Absent)

LeafRules ==
  { GoodLeaf, NoIdLeaf,
    RuleObj(JStr("1"), Absent, Absent, Absent),
    RuleObj(JNum("1"), JStr("Criterion"), Absent, Absent),
    RuleObj(JStr("1"), JStr("Criterion"), JStr("AND"), Absent),
    RuleObj(JStr("1"), JStr("Criterion"), JNull, JNull),
    RuleObj(JStr("1"), JStr("Criterion"), JNum("1"), Absent),
    RuleObj(JStr("1"), JStr("Criterion"), Absent, JArr(<<>>)),
    RuleObj(JStr("1"), JStr("Criterion"), JStr("AND"), JArr(<<>>)),
    RuleObj(JStr("1"), JStr("Criterion"), Absent, JStr("none")),
    RuleObj(JStr("1"), JStr("Criterion"), Absent, GoodLeaf) }

RECURSIVE RuleTrees(_)
RuleTrees(depth) ==
  IF depth = 0 THEN LeafRules
  ELSE LET below == RuleTrees(depth - 1) IN
       below
       \cup { RuleObj(JStr("1"), JStr("Criterion"), op, JArr(<<c>>)) :
                op \in {Absent, JStr("AND")}, c \in below \cup {JStr("Criterion")} }
       \cup { RuleObj(JStr("1"), JStr("Criterion"), JStr("OR"), JArr(<<a, b>>)) :
                a \in {GoodLeaf, NoIdLeaf}, b \in {GoodLeaf, NoIdLeaf} }

GuidelineObj(title, payer, root) ==
  Dict([title |-> title, insurance_name |-> payer, rules |-> root])

JsonAnswers ==
  { GuidelineObj(Absent, Absent, r) : r \in RuleTrees(MaxDepth) }
  \cup { GuidelineObj(JStr("Some Title"), JStr("Some Payer"), r) : r \in RuleTrees(MaxDepth) }
  \cup { GuidelineObj(Absent, Absent, Absent),
         GuidelineObj(JStr("Some Title"), JNull, Absent),
         GuidelineObj(Absent, Absent, JNull),
         GuidelineObj(Absent, Absent, JArr(<<GoodLeaf>>)),
         GuidelineObj(Absent, Absent, JStr("none")),
         GuidelineObj(JNum("1"), Absent, JNum("1")),
         JArr(<<>>), JArr(<<GoodLeaf>>), JStr("none"), JNum("1"), JNull }

NotJsonAtAll == <<Word("not"), SP, Word("json"), SP, Word("at"), SP, Word("all")>>

Payloads ==
  { Serialize(j) : j \in JsonAnswers }
  \cup { NotJsonAtAll, <<>>,
         <<Punct("{")>>,
         <<Punct("{"), StrLit("rules"), Punct("}")>>,
         <<Punct("{"), StrLit("rules"), Punct(":"), SP, Word("null"), Punct(","), Punct("}")>>,
         Serialize(GuidelineObj(Absent, Absent, GoodLeaf)) \o <<NL, Word("Done")>> }

\* the opening fence line, with or without the language tag
FenceOpeners == { <<Fence, Word("json"), NL>>, <<Fence, NL>> }

Fenced(open, payload) == open \o payload \o <<NL, Fence>>

Pad(n) == [i \in 1..n |-> IF i % 2 = 1 THEN NL ELSE SP]

Wrappings(payload) ==
  { payload,
    <<Fence, Word("json"), NL>> \o payload,
    payload \o <<NL, Fence>>,
    <<Fence>> \o payload \o <<Fence>>,
    <<Word("Here"), SP, Word("it"), SP, Word("is"), Punct(":"), NL>>
      \o Fenced(<<Fence, NL>>, payload) }
  \cup { Fenced(open, payload) : open \in FenceOpeners }

\* message.content: a str, or None (a refusal, a tool call)
Contents ==
  { JStr(Pad(n) \o w \o Pad(n)) : n \in 0..MaxPad, w \in UNION { Wrappings(p) : p \in Payloads } }
  \cup { JNull }

\* ------------------------------------------------------- the web page
\* A page is its elements in document order, which is the order find and
\* find_next walk them in.
Element(tag, class, string, items) ==
  [tag |-> tag, class |-> class, string |-> string, items |-> items]

PolicyHead == Element("h2", "policyHead", "Policy", <<>>)
OtherHead == Element("h2", "policyHead", "Background", <<>>)
PlainHead == Element("h2", "", "Policy", <<>>)
ListA == Element("ol", "", "", <<Word("Criterion A"), Word("Criterion B")>>)
ListB == Element("ol", "", "", <<Word("Criterion C")>>)
Para == Element("p", "", "Text", <<>>)

Elements == {PolicyHead, OtherHead, PlainHead, ListA, ListB, Para}

Docs == UNION { [1..n -> Elements] : n \in 0..MaxDoc }

Min(S) == CHOOSE x \in S : \A y \in S : x <= y

\* soup.find("h2", class_="policyHead", string="Policy"): its place, 0 for None
FindHeader(doc) ==
  LET hits == { i \in 1..Len(doc) : doc[i].tag = "h2" /\ doc[i].class = "policyHead"
                                    /\ doc[i].string = "Policy" }
  IN IF hits = {} THEN 0 ELSE Min(hits)

\* a forward scan that stops at the next heading of the same kind
FindNextInSection(doc, from, tag) ==
  LET stops == { i \in (from + 1)..Len(doc) :
                   doc[i].tag = "h2" /\ doc[i].class = "policyHead" } \cup {Len(doc) + 1}
      hits == { i \in (from + 1)..(Min(stops) - 1) : doc[i].tag = tag }
  IN IF hits = {} THEN 0 ELSE Min(hits)

\* header.find_next(tag): the first such element after it, 0 for None
FindNext(doc, from, tag) ==
  LET hits == { i \in (from + 1)..Len(doc) : doc[i].tag = tag }
  IN IF hits = {} THEN 0 ELSE Min(hits)

\* ol.get_text(separator="\n").strip()
GetText(el) == Strip(Join([i \in 1..Len(el.items) |-> <<el.items[i]>>]))

HeaderNotFound == Exc("ValueError", "Policy header not found.", "")
ListNotFound == Exc("ValueError", "Ordered list not found after the Policy header.", "")

\* the part of fetch_aetna_guidelines after the page is parsed
ExtractText(doc) ==
  LET h == FindHeader(doc) IN
  IF h = 0 THEN Raised(HeaderNotFound)
  ELSE LET ol == FindNext(doc, h, "ol") IN
       IF ol = 0 THEN Raised(ListNotFound) ELSE Returned(JStr(GetText(doc[ol])))

\* response.raise_for_status(): 4xx and 5xx raise HTTPError
RaisesForStatus(status) == 400 <= status /\ status < 600

Statuses == {200, 304, 404, 500}

\* ------------------------------------------------------------- state
VARIABLES
  pc,          \* the stage main() is in
  fetchCalls,  \* calls of requests.get
  llmCalls,    \* calls of client.chat.completions.create
  soup,        \* the parsed page inside fetch_aetna_guidelines
  extracted,   \* extracted_text
  content,     \* the model's message content
  outcome,     \* how extract_rules_with_openai ended: a return or a raise
  guideline,   \* the Guideline main() received
  error,       \* the exception main() caught
  printed,     \* what main() printed
  escaped      \* an exception left main()

vars == <<pc, fetchCalls, llmCalls, soup, extracted, content, outcome, guideline,
          error, printed, escaped>>

Pending == [pending |-> "pending"]

GuidelineTitle == "Chronic Fatigue Syndrome"
InsuranceName == "Aetna"

ExceptionTypes ==
  {"HTTPError", "ConnectionError", "APIError", "ValueError", "TypeError",
   "AttributeError", "JSONDecodeError", "ValidationError"}

Init ==
  /\ pc = "Fetching"
  /\ fetchCalls = 0
  /\ llmCalls = 0
  /\ soup = JNull
  /\ extracted = JNull
  /\ content = Pending
  /\ outcome = Pending
  /\ guideline = JNull
  /\ error = NoExc
  /\ printed = <<>>
  /\ escaped = FALSE

\* an except clause that names ValueError only
CaughtValueErrorOnly(e) == e.type = "ValueError"

\* except Exception as e
Caught(e) == e.type \in ExceptionTypes

\* an exception reaches main(): caught and printed, or it leaves main()
Handle(e) ==
  /\ error' = e
  /\ IF Caught(e)
     THEN /\ pc' = "Failed"
          /\ printed' = Append(printed, [kind |-> "error", body |-> e])
          /\ escaped' = escaped
     ELSE /\ pc' = "Crashed"
          /\ printed' = printed
          /\ escaped' = TRUE

\* a fetch that is tried again after a failure
RetryFetch(e) ==
  IF fetchCalls < 2
  THEN UNCHANGED <<pc, error, printed, escaped>>
  ELSE Handle(e)

\* requests.get or raise_for_status raised: the exception goes to main()
FetchFailed(e) == Handle(e)

\* requests.get, raise_for_status, BeautifulSoup
Fetch ==
  /\ pc = "Fetching"
  /\ fetchCalls' = fetchCalls + 1
  /\ UNCHANGED <<llmCalls, extracted, content, outcome, guideline>>
  /\ \/ /\ FetchFailed(Exc("ConnectionError", "connection failed", ""))
        /\ soup' = soup
     \/ \E status \in Statuses, doc \in Docs :
          IF RaisesForStatus(status)
          THEN FetchFailed(Exc("HTTPError", "Client or Server Error", "")) /\ soup' = soup
          ELSE /\ pc' = "Extracting"
               /\ soup' = JArr(doc)
               /\ UNCHANGED <<error, printed, escaped>>

\* an extraction failure that lets the run go on with an empty text
ResumeAfterFailure(e) ==
  /\ pc' = "Transforming"
  /\ extracted' = JStr(<<>>)
  /\ UNCHANGED <<error, printed, escaped>>

\* the ValueError of fetch_aetna_guidelines goes to main()
ExtractFailed(e) == Handle(e) /\ extracted' = extracted

\* find, find_next, get_text; the page is a local and is gone on return
Extract ==
  /\ pc = "Extracting"
  /\ soup' = JNull
  /\ UNCHANGED <<fetchCalls, llmCalls, content, outcome, guideline>>
  /\ LET r == ExtractText(soup.arr) IN
     IF r.exc # NoExc THEN ExtractFailed(r.exc)
     ELSE /\ pc' = "Transforming"
          /\ extracted' = r.ret
          /\ UNCHANGED <<error, printed, escaped>>

\* an answer that cannot be used is asked for again
RetryTransform(e) ==
  IF llmCalls < 2
  THEN content' = Pending /\ outcome' = Pending /\ UNCHANGED <<pc, error, printed, escaped>>
  ELSE Handle(e) /\ UNCHANGED <<content, outcome>>

\* extract_rules_with_openai raised: the exception goes to main()
TransformFailed(e) == Handle(e) /\ UNCHANGED <<content, outcome>>

\* extract_rules_with_openai: one call of client.chat.completions.create,
\* then the answer is stripped, parsed, overridden and validated; the call
\* ends by returning a Guideline or by raising
Transform ==
  /\ pc = "Transforming"
  /\ outcome = Pending
  /\ llmCalls' = llmCalls + 1
  /\ UNCHANGED <<pc, fetchCalls, soup, extracted, guideline, error, printed, escaped>>
  /\ \/ /\ content' = content
        /\ outcome' = Raised(Exc("APIError", "request failed", ""))
     \/ \E c \in Contents :
          /\ content' = c
          /\ outcome' = ExtractRules(c, GuidelineTitle, InsuranceName)

\* main() after the call: it prints the Guideline, or catches what was raised
Finish ==
  /\ pc = "Transforming"
  /\ outcome # Pending
  /\ UNCHANGED <<fetchCalls, llmCalls, soup, extracted>>
  /\ IF outcome.exc # NoExc THEN TransformFailed(outcome.exc) /\ guideline' = guideline
     ELSE /\ pc' = "Done"
          /\ guideline' = outcome.ret
          /\ printed' = Append(printed, [kind |-> "guideline", body |-> outcome.ret])
          /\ UNCHANGED <<content, outcome, error, escaped>>

Next == Fetch \/ Extract \/ Transform \/ Finish

Spec == Init /\ [][Next]_vars

\* every blocking call returns and main() runs on
FairSpec == Spec /\ WF_vars(Next)

\* ============================================================ claims
Terminal == pc \in {"Done", "Failed"}

\* the text json.loads is given
Remainder == StripFences(Strip(content.str))

Answered == TypeOf(content) = "str"

Finished == pc # "Transforming"

Normalized(g, title, payer) ==
  /\ TypeOf(g) = "Guideline"
  /\ g.Guideline.title = JStr(title)
  /\ g.Guideline.insurance_name = JStr(payer)
  /\ g.Guideline.rules.Rule.rule_text = JStr(MedicalNecessity)

Titles == {GuidelineTitle, "Some Title", "Other Title"}
Payers == {InsuranceName, "Some Payer", "Other Payer"}

\* C1: whatever the model answered, a Guideline that transform returns has
\* the supplied title, the supplied payer and the root rule_text
\* "Medical Necessity"; for the run's own call and for every other supplied
\* title and payer on the same answer.
C1_Normalized ==
  /\ pc = "Done" => Normalized(guideline, GuidelineTitle, InsuranceName)
  /\ Answered =>
       \A t \in Titles, p \in Payers :
         LET r == ExtractRules(content, t, p) IN
         r.exc = NoExc => Normalized(r.ret, t, p)

\* C1 witness: a Guideline was returned for an answer that named another
\* title, another payer and another root rule_text.
C1_Witness ==
  /\ pc = "Done"
  /\ LET data == JsonLoads(Remainder).v IN
     /\ HasKey(data, "title") /\ data.obj["title"] # JStr(GuidelineTitle)
     /\ HasKey(data, "insurance_name") /\ data.obj["insurance_name"] # JStr(InsuranceName)
     /\ HasKey(data.obj["rules"], "rule_text")
     /\ data.obj["rules"].obj["rule_text"] # JStr(MedicalNecessity)

\* C2: the stages follow Fetching, Extracting, Transforming, Done; a stage
\* that raises moves the run to Failed; nothing happens after Done or
\* Failed; and every run whose calls return ends in Done or Failed.
C2_StageOrder ==
  /\ [][ /\ pc = "Fetching" => pc' \in {"Extracting", "Failed"}
         /\ pc = "Extracting" => pc' \in {"Transforming", "Failed"}
         /\ pc = "Transforming" => pc' \in {"Transforming", "Done", "Failed"}
         /\ ~Terminal
         /\ pc' = "Extracting" => TypeOf(soup') = "arr"
         /\ (pc = "Extracting" /\ ExtractText(soup.arr).exc # NoExc) => pc' = "Failed"
         /\ (pc = "Transforming" /\ outcome # Pending /\ outcome.exc # NoExc)
              => pc' = "Failed"
         /\ pc' = "Failed" <=> error' # NoExc
         /\ pc' = "Done" => TypeOf(guideline') = "Guideline" ]_vars
  /\ <>Terminal

\* C2 witness: a run went through every stage to Done.
C2_Witness ==
  pc = "Done" /\ fetchCalls = 1 /\ llmCalls = 1 /\ TypeOf(extracted) = "str"

FailedBeforeTransforming ==
  /\ pc = "Failed"
  /\ \/ error.type \in {"HTTPError", "ConnectionError"}
     \/ error \in {HeaderNotFound, ListNotFound}

\* C3: a run that fails while fetching or extracting has made no
\* language-model call and exactly one fetch; no language-model call is made
\* before the Transforming stage and the fetch is never repeated.
C3_ShortCircuit ==
  /\ pc \in {"Fetching", "Extracting"} => llmCalls = 0
  /\ fetchCalls <= 1
  /\ FailedBeforeTransforming =>
       llmCalls = 0 /\ fetchCalls = 1 /\ TypeOf(content) = "pending"

\* C3 witness: the page had no Policy heading and the run failed there.
C3_Witness == pc = "Failed" /\ error = HeaderNotFound /\ fetchCalls = 1

\* C4: the language model is called at most once in a run, and exactly
\* once when transform has run, whether its answer was valid, fenced,
\* unparsable or schema-invalid.
C4_OneModelCall ==
  /\ llmCalls <= 1
  /\ TypeOf(content) # "pending" => llmCalls = 1
  /\ pc = "Done" => llmCalls = 1
  /\ (pc = "Failed" /\ error.msg = "Error processing output from OpenAI") => llmCalls = 1

\* C4 witness: a schema-invalid answer ended the run after one call.
C4_Witness ==
  pc = "Failed" /\ error.cause = "ValidationError" /\ llmCalls = 1

MalformedResponse ==
  Exc("ValueError", "Error processing output from OpenAI", "JSONDecodeError")

SchemaValidationError ==
  Exc("ValueError", "Error processing output from OpenAI", "ValidationError")

\* C5: when the answer does not parse as JSON after fence stripping, the
\* run ends with the ValueError that wraps the JSONDecodeError, no Guideline
\* is returned or printed, and no other error takes its place.
C5_Malformed ==
  (Answered /\ Finished /\ ~JsonLoads(Remainder).ok) =>
    /\ pc = "Failed"
    /\ error = MalformedResponse
    /\ guideline = JNull
    /\ \A i \in 1..Len(printed) : printed[i].kind # "guideline"

\* C5 witness: the answer "not json at all" was processed.
C5_Witness ==
  pc = "Failed" /\ content = JStr(NotJsonAtAll) /\ error = MalformedResponse

\* C6: when the answer parses as JSON and transform returns no Guideline,
\* the error is the ValueError that wraps the ValidationError.
C6_SchemaError ==
  (Answered /\ Finished /\ JsonLoads(Remainder).ok /\ pc # "Done") =>
    error = SchemaValidationError

\* C7: a run that has ended printed exactly one thing, the validated
\* Guideline after Done or the error message after Failed; a run that has
\* not ended printed nothing; no exception leaves main().
C7_OneOutput ==
  /\ ~escaped
  /\ pc # "Crashed"
  /\ Len(printed) = (IF Terminal THEN 1 ELSE 0)
  /\ pc = "Done" =>
       /\ printed[1] = [kind |-> "guideline", body |-> guideline]
       /\ TypeOf(guideline) = "Guideline"
       /\ error = NoExc
       /\ fetchCalls = 1 /\ llmCalls = 1
  /\ pc = "Failed" =>
       /\ printed[1] = [kind |-> "error", body |-> error]
       /\ error # NoExc
       /\ guideline = JNull

\* C7 witness: a TypeError from inside transform was caught and printed.
C7_Witness ==
  pc = "Failed" /\ error.type = "TypeError" /\ Len(printed) = 1

\* C8: with a Policy heading on the page, extraction takes the first <ol>
\* between the heading and the next heading of the same kind, and fails
\* with the missing-list error when there is none there.
C8_ContainerInSection ==
  [][ (pc = "Extracting" /\ FindHeader(soup.arr) # 0) =>
        LET doc == soup.arr
            ol == FindNextInSection(doc, FindHeader(doc), "ol")
        IN IF ol = 0
           THEN pc' = "Failed" /\ error' = ListNotFound
           ELSE pc' = "Transforming" /\ extracted' = JStr(GetText(doc[ol])) ]_vars

\* C9: for a JSON payload, the answer that wraps it in a fence line and a
\* closing fence line has the outcome of the bare answer; an answer with a
\* fence at one end only is not stripped and does not parse.
C9_FenceEquivalence ==
  /\ (Answered /\ Finished /\ JsonLoads(content.str).ok) =>
       \A open \in FenceOpeners :
         ExtractRules(JStr(Fenced(open, content.str)), GuidelineTitle, InsuranceName)
           = [ret |-> guideline, exc |-> error]
  /\ (Answered /\ Finished
        /\ StartsWithFence(Strip(content.str)) # EndsWithFence(Strip(content.str))) =>
       error = MalformedResponse

\* C9 witness: a fenced answer with a language tag produced a Guideline.
C9_Witness ==
  /\ pc = "Done"
  /\ StartsWithFence(Strip(content.str))
  /\ Len(Split(Strip(content.str))) > 3

RECURSIVE CoPresent(_)
CoPresent(r) ==
  LET f == r.Rule IN
  /\ TypeOf(f.operator) # "null" => (TypeOf(f.rules) = "arr" /\ Len(f.rules.arr) >= 1)
  /\ TypeOf(f.rules) = "null" => TypeOf(f.operator) = "null"
  /\ TypeOf(f.rules) = "arr" => \A i \in 1..Len(f.rules.arr) : CoPresent(f.rules.arr[i])

RECURSIVE Conforms(_)
Conforms(r) ==
  /\ TypeOf(r) = "Rule"
  /\ TypeOf(r.Rule.rule_id) = "str"
  /\ TypeOf(r.Rule.rule_text) = "str"
  /\ TypeOf(r.Rule.operator) \in {"null", "str"}
  /\ TypeOf(r.Rule.rules) \in {"null", "arr"}
  /\ TypeOf(r.Rule.rules) = "arr" =>
       \A i \in 1..Len(r.Rule.rules.arr) : Conforms(r.Rule.rules.arr[i])

\* C10 as stated: every Rule of a returned Guideline has an operator only
\* together with at least one child, and no operator without children.
C10_CoPresence == pc = "Done" => CoPresent(guideline.Guideline.rules)

\* C10 as amended: every Rule of a returned Guideline, at every depth, has
\* a str rule_id and rule_text, an operator that is None or a str and rules
\* that is None or a list of such Rules; operator and rules are not tied.
C10_SchemaAtEveryDepth == pc = "Done" => Conforms(guideline.Guideline.rules)

\* C10 witness: a returned Guideline whose root has children and in which
\* some Rule has an operator and no children.
C10_Witness ==
  /\ pc = "Done"
  /\ TypeOf(guideline.Guideline.rules.Rule.rules) = "arr"
  /\ Len(guideline.Guideline.rules.Rule.rules.arr) >= 1
  /\ ~CoPresent(guideline.Guideline.rules)

====
